---- MODULE Spec2Model ----
(***************************************************************************)
(* State-machine model of TextWindows.py: the TextWindow and TextPad       *)
(* classes drawing through the curses library.                             *)
(*                                                                         *)
(* Text is a sequence of one-character strings.  The curses library is     *)
(* the external collaborator: its calls are recorded, in order, in the     *)
(* `calls' field of the record of the last operation.                      *)
(***************************************************************************)
EXTENDS Integers, Sequences, FiniteSets, TLC

(***************************************************************************)
(* Bounds of the model.                                                    *)
(***************************************************************************)
MaxLines == 5        \* curses.LINES ranges over 1..MaxLines
MaxCols == 4         \* curses.COLS ranges over 1..MaxCols
MaxRows == 4         \* requested rows of a window range over 0..MaxRows
MaxColumns == 3      \* requested columns of a window range over 0..MaxColumns
MaxPadRows == 2      \* requested rows of a pad range over 0..MaxPadRows
MaxPadCols == 2      \* requested columns of a pad range over 0..MaxPadCols
FaultTextLen == 1    \* length of the texts where any curses call may raise
MaxOrigin == 1       \* y1, x1 range over 0..MaxOrigin
MaxTextLen == 2      \* length of the texts passed to ScrollPrint / PadPrint
MaxSingles == 5      \* cap of the counter of single-line writes
MaxRegion == 2       \* side of the (square) screen region of a pad
MaxFault == 3        \* index of the curses call of an operation that may raise

TAB == "\t"
Alphabet == {"a", TAB}
Colors == {2, 3}                 \* colour pairs passed as Color
FaultColors == {3}               \* the same where any curses call may raise
BorderColors == {2}
TitleColors == {3}
Flags == {"Y", "N"}              \* ShowBorder

\* datetime.now().strftime("%H:%M:%S"): one reading of the clock
Clock == <<"1", "2", ":", "3", "4", ":", "5", "6">>

Min(a, b) == IF a <= b THEN a ELSE b
Max(a, b) == IF a >= b THEN a ELSE b

TextsUpTo(n) == UNION {[1..k -> Alphabet] : k \in 0..n}
Texts == TextsUpTo(MaxTextLen)

(***************************************************************************)
(* Python string primitives.                                               *)
(***************************************************************************)
\* s[a:b] with Python's treatment of negative and out-of-range indices
PyIndex(n, i) == IF i < 0 THEN Max(n + i, 0) ELSE Min(i, n)
Slice(s, a, b) ==
  LET lo == PyIndex(Len(s), a)
      hi == PyIndex(Len(s), b)
  IN IF lo < hi THEN SubSeq(s, lo + 1, hi) ELSE <<>>
SliceFrom(s, a) == Slice(s, a, Len(s))

Spaces(n) == [i \in 1..n |-> " "]

\* s.ljust(width, ' ')
Ljust(s, width) == IF Len(s) >= width THEN s ELSE s \o Spaces(width - Len(s))

\* s.expandtabs(tabsize): a tab becomes the spaces up to the next tab stop
RECURSIVE ExpandFrom(_, _, _)
ExpandFrom(s, col, tabsize) ==
  IF s = <<>> THEN <<>>
  ELSE IF Head(s) = TAB
       THEN LET n == tabsize - (col % tabsize)
            IN Spaces(n) \o ExpandFrom(Tail(s), col + n, tabsize)
       ELSE <<Head(s)>> \o ExpandFrom(Tail(s), col + 1, tabsize)
ExpandTabs(s, tabsize) == ExpandFrom(s, 0, tabsize)

\* current_time + ": {}".format(PrintLine)
Stamp(PrintLine) == Clock \o <<":", " ">> \o PrintLine

(***************************************************************************)
(* State.                                                                  *)
(*                                                                         *)
(* The size of the terminal, curses.LINES and curses.COLS, is no state of   *)
(* the program: the terminal is resized by its user at any time, and an    *)
(* operation that reads the size takes it as an input and records it.      *)
(*                                                                         *)
(*   win  : the fields of the TextWindow instance that its methods read    *)
(*          (name, y1, x1, y2 and x2 are stored and never read)            *)
(*   wop  : the last operation on the window: its name, its arguments,     *)
(*          the curses calls it made, whether its error handler ran and    *)
(*          whether an exception left it                                   *)
(*   singles : number of ScrollPrint calls since construction, while every *)
(*          operation since construction was a ScrollPrint of one chunk    *)
(*          (-1 otherwise)                                                 *)
(*   emph : the cells of the window surface that show bold text, a cell    *)
(*          (y, x) being the number y * columns + x                        *)
(*   pad, pop : the same for the TextPad instance; pad.buf is the size of  *)
(*          the curses pad and pad.cury the row of its write position      *)
(*   region : y2 and x2, the bottom right corner of the screen region the  *)
(*          pad was constructed for (arguments the constructor drops)      *)
(***************************************************************************)
VARIABLES win, wop, singles, emph, pad, pop, region

vars == <<win, wop, singles, emph, pad, pop, region>>
winvars == <<win, wop, singles, emph>>
padvars == <<pad, pop, region>>

NoWindow ==
  [state |-> "none", rows |-> 0, columns |-> 0,
   ShowBorder |-> "N", BorderColor |-> 0, CurrentRow |-> 0, StartColumn |-> 0,
   DisplayRows |-> 0, DisplayColumns |-> 0, PreviousLineText |-> <<>>,
   PreviousLineRow |-> 0, PreviousLineColor |-> 0, Title |-> <<>>,
   TitleColor |-> 0]

NoArgs ==
  [LINES |-> 0, COLS |-> 0,
   rows |-> 0, columns |-> 0, y1 |-> 0, x1 |-> 0, y2 |-> 0, x2 |-> 0,
   PrintLine |-> <<>>, Color |-> 0, TimeStamp |-> FALSE, BoldLine |-> FALSE]

NoOp == [name |-> "none", args |-> NoArgs, calls |-> <<>>,
         handled |-> FALSE, printed |-> FALSE, raised |-> "no"]

(***************************************************************************)
(* The curses window: a surface of win.rows x win.columns cells.           *)
(*                                                                         *)
(* window.addstr(y, x, str, attr) moves to (y, x), which must be a cell of *)
(* the window, and writes str from there, continuing on the next row at    *)
(* the right edge.  It raises curses.error when (y, x) is no cell of the   *)
(* window, and also when the text reaches the last cell of the window      *)
(* (the cursor cannot advance past it; the characters that fit are         *)
(* written).  `shown' is the number of characters written, `fault' an      *)
(* error of the library for any other reason.                              *)
(***************************************************************************)
InWindow(w, y, x) == y \in 0..(w.rows - 1) /\ x \in 0..(w.columns - 1)

CellsFrom(w, y, x) == w.rows * w.columns - (y * w.columns + x)

Addstr(w, y, x, str, color, bold, fault) ==
  [op |-> "addstr", y |-> y, x |-> x, str |-> str, color |-> color, bold |-> bold,
   ok |-> /\ ~fault
          /\ InWindow(w, y, x)
          /\ (Len(str) = 0 \/ Len(str) < CellsFrom(w, y, x)),
   shown |-> IF fault \/ ~InWindow(w, y, x) THEN 0
             ELSE Min(Len(str), CellsFrom(w, y, x))]

\* window.erase() and window.border(): no position, no text
Plain(name, color, fault) ==
  [op |-> name, y |-> 0, x |-> 0, str |-> <<>>, color |-> color, bold |-> FALSE,
   ok |-> ~fault, shown |-> 0]

\* the cells a call writes, and the bold cells of the surface after calls
CellsOf(w, call) ==
  IF call.op = "addstr"
  THEN {call.y * w.columns + call.x + k : k \in 0..(call.shown - 1)}
  ELSE {}

BorderCells(w) ==
  {y * w.columns + x : y \in {0, w.rows - 1}, x \in 0..(w.columns - 1)}
    \cup {y * w.columns + x : y \in 0..(w.rows - 1), x \in {0, w.columns - 1}}

RECURSIVE EmphAfter(_, _, _)
EmphAfter(w, e, calls) ==
  IF calls = <<>> THEN e
  ELSE LET call == Head(calls)
           next == IF ~call.ok /\ call.shown = 0 THEN e
                   ELSE IF call.op = "erase" THEN {}
                   ELSE IF call.op = "border" THEN e \ BorderCells(w)
                   ELSE IF call.op = "addstr"
                   THEN IF call.bold THEN e \cup CellsOf(w, call)
                        ELSE e \ CellsOf(w, call)
                   ELSE e
       IN EmphAfter(w, next, Tail(calls))

(***************************************************************************)
(* TextWindow.__init__                                                     *)
(***************************************************************************)
TermSizes == [LINES : 1..MaxLines, COLS : 1..MaxCols]

NewWindowResult(term, rows, columns, y1, x1, ShowBorder, BorderColor, TitleColor, fault) ==
  LET max_y == term.LINES - 1
      max_x == term.COLS - 1
      r == Min(rows, max_y - y1)
      c == Min(columns, max_x - x1)
      newwin == Plain("newwin", 0, fault = 1)
      made == [NoWindow EXCEPT !.state = "ok", !.rows = r, !.columns = c,
                 !.ShowBorder = ShowBorder,
                 !.BorderColor = BorderColor, !.CurrentRow = 1, !.StartColumn = 1,
                 !.DisplayRows = r, !.DisplayColumns = c,
                 !.PreviousLineText = <<>>, !.PreviousLineRow = 0,
                 !.PreviousLineColor = 2, !.Title = <<>>, !.TitleColor = TitleColor]
  IN IF r <= 0 \/ c <= 0
     THEN [w |-> NoWindow, calls |-> <<>>, raised |-> "SizeError"]
     ELSE IF ~newwin.ok
     THEN [w |-> NoWindow, calls |-> <<newwin>>, raised |-> "AllocError"]
     ELSE IF ShowBorder = "Y"
     THEN LET border == Plain("border", BorderColor, fault = 2)
          IN [w |-> [made EXCEPT !.CurrentRow = 1, !.StartColumn = 1,
                                  !.DisplayRows = r - 2, !.DisplayColumns = c - 2],
              calls |-> <<newwin, border>>,
              raised |-> IF border.ok THEN "no" ELSE "curses.error"]
     ELSE [w |-> [made EXCEPT !.CurrentRow = 0, !.StartColumn = 0],
           calls |-> <<newwin>>, raised |-> "no"]

NewWindowOp(Faults) ==
  /\ win.state = "none"
  /\ \E term \in TermSizes, rows \in 0..MaxRows, columns \in 0..MaxColumns,
        y1 \in 0..MaxOrigin, x1 \in 0..MaxOrigin, ShowBorder \in Flags,
        BorderColor \in BorderColors, TitleColor \in TitleColors, fault \in Faults :
       \E res \in {NewWindowResult(term, rows, columns, y1, x1, ShowBorder,
                                  BorderColor, TitleColor, fault)} :
          /\ win' = IF res.raised = "no" THEN res.w
                    ELSE [NoWindow EXCEPT !.state = "failed"]
          /\ wop' = [NoOp EXCEPT !.name = "__init__",
                       !.args = [NoArgs EXCEPT !.LINES = term.LINES,
                                   !.COLS = term.COLS, !.rows = rows,
                                   !.columns = columns, !.y1 = y1, !.x1 = x1],
                       !.calls = res.calls, !.raised = res.raised]
          /\ singles' = IF res.raised = "no" THEN 0 ELSE -1
          /\ emph' = {}
  /\ UNCHANGED padvars

\* the construction of a window of up to MaxColumns + 3 columns on a terminal
\* wide enough for it: the widths at which a title has room
WideTerms == [LINES : {MaxLines}, COLS : {MaxCols + 3}]

NewWideWindow ==
  /\ win.state = "none"
  /\ \E term \in WideTerms, rows \in 0..MaxRows, columns \in 0..(MaxColumns + 3),
        y1 \in 0..MaxOrigin, x1 \in 0..MaxOrigin, ShowBorder \in Flags,
        BorderColor \in BorderColors, TitleColor \in TitleColors :
       \E res \in {NewWindowResult(term, rows, columns, y1, x1, ShowBorder,
                                  BorderColor, TitleColor, 0)} :
          /\ win' = IF res.raised = "no" THEN res.w
                    ELSE [NoWindow EXCEPT !.state = "failed"]
          /\ wop' = [NoOp EXCEPT !.name = "__init__",
                       !.args = [NoArgs EXCEPT !.LINES = term.LINES,
                                   !.COLS = term.COLS, !.rows = rows,
                                   !.columns = columns, !.y1 = y1, !.x1 = x1],
                       !.calls = res.calls, !.raised = res.raised]
          /\ singles' = IF res.raised = "no" THEN 0 ELSE -1
          /\ emph' = {}
  /\ UNCHANGED padvars

(***************************************************************************)
(* TextWindow.ScrollPrint                                                  *)
(***************************************************************************)
\* (the tabs expanded before the timestamp prefix is added)
Prepared_ExpandFirst(PrintLine, TimeStamp) ==
  IF TimeStamp THEN Stamp(ExpandTabs(PrintLine, 4)) ELSE ExpandTabs(PrintLine, 4)

\* the text after the timestamp prefix and the tab expansion
Prepared(PrintLine, TimeStamp) ==
  ExpandTabs(IF TimeStamp THEN Stamp(PrintLine) ELSE PrintLine, 4)

\* the while loop: one iteration per chunk.  The result is the instance
\* after the loop, the curses calls made and whether one of them raised.
RECURSIVE ScrollLoop(_, _, _, _, _, _, _)
ScrollLoop(w, PrintableString, RemainingString, Color, BoldLine, calls, fault) ==
  IF Len(PrintableString) = 0
  THEN [w |-> w, calls |-> calls, failed |-> FALSE]
  ELSE
    LET Printable == Ljust(PrintableString, w.DisplayColumns)
        previous == Addstr(w, w.PreviousLineRow, w.StartColumn, w.PreviousLineText,
                           w.PreviousLineColor, FALSE, fault = Len(calls) + 1)
        current == Addstr(w, w.CurrentRow, w.StartColumn, Printable,
                          Color, BoldLine, fault = Len(calls) + 2)
    IN IF ~previous.ok
       THEN [w |-> w, calls |-> Append(calls, previous), failed |-> TRUE]
       ELSE IF ~current.ok
       THEN [w |-> w, calls |-> calls \o <<previous, current>>, failed |-> TRUE]
       ELSE ScrollLoop([w EXCEPT !.PreviousLineText = Printable,
                                 !.PreviousLineColor = Color,
                                 !.PreviousLineRow = w.CurrentRow,
                                 !.CurrentRow = w.CurrentRow + 1],
                       Slice(RemainingString, 0, w.DisplayColumns),
                       SliceFrom(RemainingString, w.DisplayColumns),
                       Color, BoldLine, calls \o <<previous, current>>, fault)

\* the wrap of the cursor after the loop
WrapRow(w) ==
  IF w.CurrentRow > w.DisplayRows
  THEN [w EXCEPT !.CurrentRow = IF w.ShowBorder = "Y" THEN 1 ELSE 0]
  ELSE w

ScrollPrintResult(w, PrintLine, Color, TimeStamp, BoldLine, fault) ==
  LET Line == Prepared(PrintLine, TimeStamp)
      loop == ScrollLoop(w, Slice(Line, 0, w.DisplayColumns),
                         SliceFrom(Line, w.DisplayColumns), Color, BoldLine, <<>>, fault)
  IN [w |-> IF loop.failed THEN loop.w ELSE WrapRow(loop.w),
      calls |-> loop.calls, handled |-> loop.failed]

\* the chunks of a call: the texts of its draws at the cursor
IsSingleChunk(w, PrintLine, TimeStamp) ==
  LET n == Len(Prepared(PrintLine, TimeStamp))
  IN n >= 1 /\ n <= w.DisplayColumns

ScrollPrintOp(Lines, Pairs, Faults) ==
  /\ win.state = "ok"
  /\ \E PrintLine \in Lines, Color \in Pairs, TimeStamp \in BOOLEAN,
        BoldLine \in BOOLEAN, fault \in Faults :
       \E res \in {ScrollPrintResult(win, PrintLine, Color, TimeStamp, BoldLine, fault)} :
          /\ win' = res.w
          /\ wop' = [NoOp EXCEPT !.name = "ScrollPrint",
                       !.args = [NoArgs EXCEPT !.PrintLine = PrintLine, !.Color = Color,
                                   !.TimeStamp = TimeStamp, !.BoldLine = BoldLine],
                       !.calls = res.calls, !.handled = res.handled]
          /\ singles' = IF /\ singles >= 0 /\ singles < MaxSingles
                           /\ IsSingleChunk(win, PrintLine, TimeStamp)
                        THEN singles + 1 ELSE -1
          /\ emph' = EmphAfter(win, emph, res.calls)
  /\ UNCHANGED padvars

(***************************************************************************)
(* TextWindow.DisplayTitle, Clear, refresh; assignment of the Title        *)
(***************************************************************************)
Titles == {<<>>, <<"T">>, <<"T", "i", "t", "l", "e">>}

\* the calls of DisplayTitle, made after `before' calls of the same operation
DisplayTitleResult(w, before, fault) ==
  LET Title == Slice(w.Title, 0, w.DisplayColumns - 3)
      draw == Addstr(w, 0, 2, Title, w.TitleColor, FALSE, fault = before + 1)
  IN IF w.rows > 2
     THEN [calls |-> <<draw>>, handled |-> ~draw.ok, printed |-> FALSE]
     ELSE [calls |-> <<>>, handled |-> FALSE, printed |-> TRUE]

DisplayTitleOp(Faults) ==
  /\ win.state = "ok"
  /\ \E fault \in Faults :
       \E res \in {DisplayTitleResult(win, 0, fault)} :
          /\ wop' = [NoOp EXCEPT !.name = "DisplayTitle", !.calls = res.calls,
                       !.handled = res.handled, !.printed = res.printed]
          /\ emph' = EmphAfter(win, emph, res.calls)
  /\ singles' = -1
  /\ UNCHANGED <<win, padvars>>

ClearResult(w, fault) ==
  LET erase == Plain("erase", 0, fault = 1)
      border == Plain("border", w.BorderColor, fault = 2)
      title == DisplayTitleResult(w, 2, fault)
      reset == [w EXCEPT !.CurrentRow = IF w.ShowBorder = "Y" THEN 1 ELSE 0,
                         !.StartColumn = IF w.ShowBorder = "Y" THEN 1 ELSE 0]
  IN IF ~erase.ok
     THEN [w |-> w, calls |-> <<erase>>, handled |-> FALSE, printed |-> FALSE,
           raised |-> "curses.error"]
     ELSE IF ~border.ok
     THEN [w |-> w, calls |-> <<erase, border>>, handled |-> FALSE, printed |-> FALSE,
           raised |-> "curses.error"]
     ELSE [w |-> reset, calls |-> <<erase, border>> \o title.calls,
           handled |-> title.handled, printed |-> title.printed, raised |-> "no"]

ClearOp(Faults) ==
  /\ win.state = "ok"
  /\ \E fault \in Faults :
       \E res \in {ClearResult(win, fault)} :
          /\ win' = res.w
          /\ wop' = [NoOp EXCEPT !.name = "Clear", !.calls = res.calls,
                       !.handled = res.handled, !.printed = res.printed,
                       !.raised = res.raised]
          /\ emph' = EmphAfter(win, emph, res.calls)
  /\ singles' = -1
  /\ UNCHANGED padvars

\* window.refresh(): the surface is copied to the terminal
RefreshOp(Faults) ==
  /\ win.state = "ok"
  /\ \E fault \in Faults :
       LET refresh == Plain("refresh", 0, fault = 1)
       IN wop' = [NoOp EXCEPT !.name = "refresh", !.calls = <<refresh>>,
                    !.raised = IF refresh.ok THEN "no" ELSE "curses.error"]
  /\ singles' = -1
  /\ UNCHANGED <<win, emph, padvars>>

\* the caller assigns the Title attribute
SetTitle ==
  /\ win.state = "ok"
  /\ \E t \in Titles :
       /\ t # win.Title
       /\ win' = [win EXCEPT !.Title = t]
  /\ wop' = [NoOp EXCEPT !.name = "Title"]
  /\ singles' = -1
  /\ UNCHANGED <<emph, padvars>>

(***************************************************************************)
(* TextPad.__init__                                                        *)
(***************************************************************************)
NoPad ==
  [state |-> "none", rows |-> 0, columns |-> 0, ypos |-> 0, xpos |-> 0,
   height |-> 0, width |-> 0, buf |-> [rows |-> 0, columns |-> 0], cury |-> 0]

\* LINES, COLS: the terminal size the operation read, 0 if it read none
NoPadOp == [name |-> "none", LINES |-> 0, COLS |-> 0, args |-> NoArgs,
            calls |-> <<>>, handled |-> FALSE, raised |-> "no"]

NoRegion == [y2 |-> 0, x2 |-> 0]

\* a call of the curses pad: rect is the rectangle passed to pad.refresh
PadCall(name, str, color, rect, ok) ==
  [op |-> name, str |-> str, color |-> color, rect |-> rect, ok |-> ok]

NoRect == <<0, 0, 0, 0, 0, 0>>

NewPadResult(term, rows, columns, y1, x1, y2, x2, fault) ==
  LET max_y == term.LINES - 1
      max_x == term.COLS - 1
      r == Min(rows, max_y - y1)
      c == Min(columns, max_x - x1)
      newpad == PadCall("newpad", <<>>, 0, NoRect, fault # 1)
  IN IF r <= 0 \/ c <= 0
     THEN [p |-> NoPad, calls |-> <<>>, raised |-> "SizeError"]
     ELSE IF ~newpad.ok
     THEN [p |-> NoPad, calls |-> <<newpad>>, raised |-> "AllocError"]
     ELSE [p |-> [NoPad EXCEPT !.state = "ok", !.rows = r, !.columns = c,
                    !.ypos = y1, !.xpos = x1, !.height = r, !.width = c,
                    !.buf = [rows |-> r, columns |-> c], !.cury = 0],
           calls |-> <<newpad>>, raised |-> "no"]

NewPadOp(Faults) ==
  /\ pad.state = "none"
  /\ \E term \in TermSizes, rows \in 0..MaxPadRows, columns \in 0..MaxPadCols,
        y1 \in 0..MaxOrigin, x1 \in 0..MaxOrigin,
        side \in 1..MaxRegion, fault \in Faults :
       LET y2 == y1 + side - 1
           x2 == x1 + side - 1
           res == NewPadResult(term, rows, columns, y1, x1, y2, x2, fault)
       IN /\ pad' = IF res.raised = "no" THEN res.p
                    ELSE [NoPad EXCEPT !.state = "failed"]
          /\ pop' = [NoPadOp EXCEPT !.name = "__init__", !.LINES = term.LINES,
                       !.COLS = term.COLS,
                       !.args = [NoArgs EXCEPT !.rows = rows, !.columns = columns,
                                   !.y1 = y1, !.x1 = x1, !.y2 = y2, !.x2 = x2],
                       !.calls = res.calls, !.raised = res.raised]
          /\ region' = IF res.raised = "no" THEN [y2 |-> y2, x2 |-> x2]
                       ELSE NoRegion
  /\ UNCHANGED winvars

(***************************************************************************)
(* TextPad.PadPrint, refresh, Clear                                        *)
(***************************************************************************)
\* (the line without the truncation of line 216)
PadLine_Untruncated(p, PrintLine, TimeStamp) ==
  Ljust(Prepared(PrintLine, TimeStamp), p.columns)

\* the line PadPrint writes: padded to the width, then truncated
PadLine(p, PrintLine, TimeStamp) ==
  Slice(Ljust(Prepared(PrintLine, TimeStamp), p.columns), 0, p.columns - 1)

\* the rows of the pad a text ending in a line feed takes
PadRowsOf(p, str) == ((Len(str) - 1) \div p.buf.columns) + 1

\* (PadPrint with the refresh its last lines leave commented out)
PadPrintResult_Refreshing(p, PrintLine, Color, TimeStamp, fault) ==
  LET line == Append(Slice(Ljust(Prepared(PrintLine, TimeStamp), p.columns),
                           0, p.columns - 1), "\n")
      rect == <<0, 0, p.ypos, p.xpos, p.ypos + p.height - 1, p.xpos + p.width - 1>>
  IN [p |-> [p EXCEPT !.cury = Min(p.cury + 1, p.buf.rows - 1)],
      calls |-> <<PadCall("idlok", <<>>, 0, NoRect, TRUE),
                  PadCall("scrollok", <<>>, 0, NoRect, TRUE),
                  PadCall("addstr", line, Color, NoRect, TRUE),
                  PadCall("refresh", <<>>, 0, rect, TRUE)>>,
      handled |-> FALSE]

PadPrintResult(p, PrintLine, Color, TimeStamp, fault) ==
  LET idlok == PadCall("idlok", <<>>, 0, NoRect, fault # 1)
      scrollok == PadCall("scrollok", <<>>, 0, NoRect, fault # 2)
      addstr == PadCall("addstr", Append(PadLine(p, PrintLine, TimeStamp), "\n"),
                        Color, NoRect, fault # 3)
  IN IF ~idlok.ok THEN [p |-> p, calls |-> <<idlok>>, handled |-> TRUE]
     ELSE IF ~scrollok.ok
     THEN [p |-> p, calls |-> <<idlok, scrollok>>, handled |-> TRUE]
     ELSE IF ~addstr.ok
     THEN [p |-> p, calls |-> <<idlok, scrollok, addstr>>, handled |-> TRUE]
     ELSE \* the text wraps at the right edge of the pad and the line feed
          \* moves to the next row; on the last row the pad scrolls
          [p |-> [p EXCEPT !.cury = Min(p.cury + PadRowsOf(p, addstr.str),
                                        p.buf.rows - 1)],
           calls |-> <<idlok, scrollok, addstr>>, handled |-> FALSE]

PadPrintOp(Lines, Pairs, Faults) ==
  /\ pad.state = "ok"
  /\ \E PrintLine \in Lines, Color \in Pairs,
        TimeStamp \in BOOLEAN, fault \in Faults :
       \E res \in {PadPrintResult(pad, PrintLine, Color, TimeStamp, fault)} :
          /\ pad' = res.p
          /\ pop' = [NoPadOp EXCEPT !.name = "PadPrint",
                       !.args = [NoArgs EXCEPT !.PrintLine = PrintLine,
                                   !.Color = Color, !.TimeStamp = TimeStamp],
                       !.calls = res.calls, !.handled = res.handled]
  /\ UNCHANGED <<winvars, region>>

\* pad.refresh(pminrow, pmincol, sminrow, smincol, smaxrow, smaxcol) raises
\* when the screen rectangle is not inside the terminal or is not well-formed
RectOk(term, rect) ==
  /\ 0 <= rect[3] /\ rect[3] <= rect[5] /\ rect[5] <= term.LINES - 1
  /\ 0 <= rect[4] /\ rect[4] <= rect[6] /\ rect[6] <= term.COLS - 1

\* (the refresh without the clamp of the bottom right corner)
PadRefreshCall_Unclamped(term, p, at, fault) ==
  LET rect == <<0, 0, Min(p.ypos, term.LINES - 1), Min(p.xpos, term.COLS - 1),
                p.ypos + p.height - 1, p.xpos + p.width - 1>>
  IN PadCall("refresh", <<>>, 0, rect, fault # at /\ RectOk(term, rect))

\* the call pad.refresh makes, as the `at'-th call of the operation
PadRefreshCall(term, p, at, fault) ==
  LET max_y == term.LINES - 1
      max_x == term.COLS - 1
      pad_max_y == p.ypos + p.height - 1
      pad_max_x == p.xpos + p.width - 1
      refresh_y1 == Min(p.ypos, max_y)
      refresh_x1 == Min(p.xpos, max_x)
      refresh_y2 == Min(pad_max_y, max_y)
      refresh_x2 == Min(pad_max_x, max_x)
      rect == <<0, 0, refresh_y1, refresh_x1, refresh_y2, refresh_x2>>
  IN PadCall("refresh", <<>>, 0, rect, fault # at /\ RectOk(term, rect))

PadRefreshOp(Faults) ==
  /\ pad.state = "ok"
  /\ \E term \in TermSizes, fault \in Faults :
       LET call == PadRefreshCall(term, pad, 1, fault)
       IN pop' = [NoPadOp EXCEPT !.name = "refresh", !.LINES = term.LINES,
                    !.COLS = term.COLS, !.calls = <<call>>,
                    !.raised = IF call.ok THEN "no" ELSE "curses.error"]
  /\ UNCHANGED <<winvars, pad, region>>

PadClearResult(term, p, fault) ==
  LET erase == PadCall("erase", <<>>, 0, NoRect, fault # 1)
      refresh == PadRefreshCall(term, p, 2, fault)
  IN IF ~erase.ok THEN [p |-> p, calls |-> <<erase>>, handled |-> TRUE]
     ELSE [p |-> [p EXCEPT !.cury = 0], calls |-> <<erase, refresh>>,
           handled |-> ~refresh.ok]

PadClearOp(Faults) ==
  /\ pad.state = "ok"
  /\ \E term \in TermSizes, fault \in Faults :
       \E res \in {PadClearResult(term, pad, fault)} :
          /\ pad' = res.p
          /\ pop' = [NoPadOp EXCEPT !.name = "Clear", !.LINES = term.LINES,
                       !.COLS = term.COLS, !.calls = res.calls,
                       !.handled = res.handled]
  /\ UNCHANGED <<winvars, region>>

(***************************************************************************)
(* Specification of the window: the curses library raises only as          *)
(* described at Addstr, and the Title is never assigned, as in main.       *)
(***************************************************************************)
NoFaults == {0}

Init ==
  /\ win = NoWindow
  /\ wop = NoOp
  /\ singles = -1
  /\ emph = {}
  /\ pad = NoPad
  /\ pop = NoPadOp
  /\ region = NoRegion

NewWindow == NewWindowOp(NoFaults)
ScrollPrint == ScrollPrintOp(Texts, Colors, NoFaults)
DisplayTitle == DisplayTitleOp(NoFaults)
Clear == ClearOp(NoFaults)
Refresh == RefreshOp(NoFaults)

Next == NewWindow \/ ScrollPrint \/ DisplayTitle \/ Clear \/ Refresh

Spec == Init /\ [][Next]_vars

(***************************************************************************)
(* Specification of the window with a curses library of which any call may *)
(* raise: `fault' is the index of the call of the operation that raises.   *)
(***************************************************************************)
AnyFault == 0..MaxFault

NewWindowF == NewWindowOp(AnyFault)
ScrollPrintF == ScrollPrintOp(TextsUpTo(FaultTextLen), FaultColors, AnyFault)
DisplayTitleF == DisplayTitleOp(AnyFault)
ClearF == ClearOp(AnyFault)
RefreshF == RefreshOp(AnyFault)

NextFault == NewWindowF \/ ScrollPrintF \/ DisplayTitleF \/ ClearF \/ RefreshF

SpecFault == Init /\ [][NextFault]_vars

(***************************************************************************)
(* Specification of the window with a Title: the caller assigns the Title  *)
(* attribute between the operations.                                       *)
(***************************************************************************)
ScrollPrintT == ScrollPrintOp(TextsUpTo(FaultTextLen), FaultColors, NoFaults)

NextTitleless == NewWideWindow \/ DisplayTitle \/ Clear \/ ScrollPrintT \/ Refresh

NextTitle ==
  NewWideWindow \/ SetTitle \/ DisplayTitle \/ Clear \/ ScrollPrintT \/ Refresh

SpecTitle == Init /\ [][NextTitle]_vars

(***************************************************************************)
(* Specification of the pad: the terminal has any size at the construction *)
(* and at each refresh, and the curses library raises only as described at *)
(* RectOk.                                                                 *)
(***************************************************************************)
NewPad == NewPadOp(NoFaults)
PadPrint == PadPrintOp(TextsUpTo(FaultTextLen), Colors, NoFaults)
PadRefresh == PadRefreshOp(NoFaults)
PadClear == PadClearOp(NoFaults)

NextPad == NewPad \/ PadPrint \/ PadRefresh \/ PadClear

SpecPad == Init /\ [][NextPad]_vars

(***************************************************************************)
(* Specification of a program that constructs a window or a pad: the two   *)
(* instances share no state, so the program has one of them.               *)
(***************************************************************************)
WindowOnly == pad.state = "none" /\ NextTitleless

PadOnly == win.state = "none" /\ NextPad

NextEither == WindowOnly \/ PadOnly

SpecEither == Init /\ [][NextEither]_vars

(***************************************************************************)
(* Specification of the pad with a curses library of which any call may    *)
(* raise.                                                                  *)
(***************************************************************************)
NewPadF == NewPadOp(AnyFault)
PadPrintF == PadPrintOp(TextsUpTo(FaultTextLen), FaultColors, AnyFault)
PadRefreshF == PadRefreshOp(AnyFault)
PadClearF == PadClearOp(AnyFault)

NextPadFault == NewPadF \/ PadPrintF \/ PadRefreshF \/ PadClearF

SpecPadFault == Init /\ [][NextPadFault]_vars

(***************************************************************************)
(* Vocabulary of the properties.                                           *)
(***************************************************************************)
\* the first row of the display area, and the rows of the display area
FirstRow(w) == IF w.ShowBorder = "Y" THEN 1 ELSE 0
InDisplay(w, y) == y >= FirstRow(w) /\ y < FirstRow(w) + w.DisplayRows

\* a constructed window of which the display area is not empty
Usable(w) == w.state = "ok" /\ w.DisplayRows >= 1 /\ w.DisplayColumns >= 1

\* ScrollPrint draws the saved line and the chunk by turns: the draws of the
\* chunks are the calls of even index; a chunk is drawn when its characters
\* were written
ChunkIdx(calls) == {i \in 1..Len(calls) : i % 2 = 0}
DrawnIdx(calls) == {i \in ChunkIdx(calls) : calls[i].shown > 0}
LastOf(S) == CHOOSE i \in S : \A j \in S : j <= i

\* the cells of the display area
DisplayCells(w) ==
  {y * w.columns + x : y \in FirstRow(w)..(FirstRow(w) + w.DisplayRows - 1),
                       x \in w.StartColumn..(w.StartColumn + w.DisplayColumns - 1)}

\* the cells that hold text after the calls of a Clear: those written since
\* the erase
RECURSIVE TextAfter(_, _, _)
TextAfter(w, t, calls) ==
  IF calls = <<>> THEN t
  ELSE LET call == Head(calls)
           next == IF call.op = "erase" /\ call.ok THEN {}
                   ELSE IF call.op = "addstr"
                   THEN t \cup {c \in CellsOf(w, call) :
                                  call.str[c - (call.y * w.columns + call.x) + 1] # " "}
                   ELSE t
       IN TextAfter(w, next, Tail(calls))

CeilDiv(a, b) == (a + b - 1) \div b

Failed(calls) == \E i \in 1..Len(calls) : ~calls[i].ok

RefreshCalls(calls) == {i \in 1..Len(calls) : calls[i].op = "refresh"}

\* the text ScrollPrint was called with, prefixed and expanded
LineOf(op) == Prepared(op.args.PrintLine, op.args.TimeStamp)

(***************************************************************************)
(* C1..C20                                                                 *)
(***************************************************************************)

\* C1 (as claimed): at every operation boundary, also after a ScrollPrint
\* that failed part-way, the CurrentRow of a window lies in the display area,
\* first_row <= CurrentRow < first_row + DisplayRows.
C1_CursorInDisplay ==
  Usable(win) => InDisplay(win, win.CurrentRow)

\* C2 (as claimed): every chunk ScrollPrint draws is drawn at a row of the
\* display area, never on the bottom border row nor outside the window.
C2_ChunksInDisplay ==
  (Usable(win) /\ wop.name = "ScrollPrint")
    => \A i \in DrawnIdx(wop.calls) : InDisplay(win, wop.calls[i].y)

\* C3 (as claimed): from a fresh window with R display rows, after N < R
\* ScrollPrint calls of one chunk each the CurrentRow is first_row + N, and
\* the (R+1)-th such call targets first_row.
C3_SingleLineRows ==
  Usable(win)
    => /\ (singles >= 0 /\ singles < win.DisplayRows)
            => win.CurrentRow = FirstRow(win) + singles
       /\ (singles = win.DisplayRows + 1 /\ wop.name = "ScrollPrint")
            => (Len(wop.calls) >= 2 /\ wop.calls[2].y = FirstRow(win))

\* C4 (as claimed): a text of length L > DisplayColumns (L taken after the
\* timestamp prefix and the tab expansion) is drawn as exactly
\* ceil(L / DisplayColumns) chunks, in text order, at consecutive rows, each
\* DisplayColumns wide, the last one padded with spaces.
C4_ChunkCount ==
  (Usable(win) /\ wop.name = "ScrollPrint"
     /\ Len(LineOf(wop)) > win.DisplayColumns)
    => LET D == win.DisplayColumns
           n == CeilDiv(Len(LineOf(wop)), D)
       IN /\ DrawnIdx(wop.calls) = {2 * k : k \in 1..n}
          /\ \A k \in 1..n :
               /\ wop.calls[2 * k].str
                    = Ljust(Slice(LineOf(wop), (k - 1) * D, k * D), D)
               /\ Len(wop.calls[2 * k].str) = D
               /\ wop.calls[2 * k].y = wop.calls[2].y + (k - 1)

\* C5 (as claimed): after a ScrollPrint with emphasis that drew at least one
\* chunk, the row of the most recently drawn chunk is the only row that
\* shows bold text; and between the chunks of one call the chunk drawn
\* before is redrawn at its row, with its text and colour, without bold.
C5_Demotion ==
  (Usable(win) /\ wop.name = "ScrollPrint" /\ wop.args.BoldLine
     /\ DrawnIdx(wop.calls) # {})
    => /\ {c \div win.columns : c \in emph}
            = {wop.calls[LastOf(DrawnIdx(wop.calls))].y}
       /\ \A i \in ChunkIdx(wop.calls) :
            i + 1 <= Len(wop.calls)
              => /\ wop.calls[i + 1].y = wop.calls[i].y
                 /\ wop.calls[i + 1].x = wop.calls[i].x
                 /\ wop.calls[i + 1].str = wop.calls[i].str
                 /\ wop.calls[i + 1].color = wop.calls[i].color
                 /\ ~wop.calls[i + 1].bold

\* C6 (as claimed): the construction of a window or of a pad yields rows =
\* min(rows, term_rows - row_origin) and columns = min(columns, term_cols -
\* col_origin), and fails with the size error exactly when one of the two
\* is <= 0.
C6_EffectiveSize ==
  /\ wop.name = "__init__"
       => LET r == Min(wop.args.rows, wop.args.LINES - wop.args.y1)
              c == Min(wop.args.columns, wop.args.COLS - wop.args.x1)
          IN /\ (wop.raised = "SizeError") <=> (r <= 0 \/ c <= 0)
             /\ wop.raised = "no" => (win.rows = r /\ win.columns = c)
  /\ pop.name = "__init__"
       => LET r == Min(pop.args.rows, pop.LINES - pop.args.y1)
              c == Min(pop.args.columns, pop.COLS - pop.args.x1)
          IN /\ (pop.raised = "SizeError") <=> (r <= 0 \/ c <= 0)
             /\ pop.raised = "no" => (pad.rows = r /\ pad.columns = c)

\* C7 (as claimed): when a curses call made inside ScrollPrint, DisplayTitle
\* or Clear of a window, or inside PadPrint or Clear of a pad, raises, the
\* operation calls the ErrorHandler and returns normally.
C7_FailuresHandled ==
  /\ (wop.name \in {"ScrollPrint", "DisplayTitle", "Clear"} /\ Failed(wop.calls))
       => (wop.raised = "no" /\ wop.handled)
  /\ (pop.name \in {"PadPrint", "Clear"} /\ Failed(pop.calls))
       => (pop.raised = "no" /\ pop.handled)

\* C8 (as claimed): the refresh of a pad projects onto the screen region the
\* pad was constructed for, (y1, x1) to (y2, x2), each corner clamped to the
\* last row and column of the terminal.
C8_RegionProjected ==
  \A i \in RefreshCalls(pop.calls) :
    pop.calls[i].rect
      = <<0, 0, Min(pad.ypos, pop.LINES - 1), Min(pad.xpos, pop.COLS - 1),
          Min(region.y2, pop.LINES - 1), Min(region.x2, pop.COLS - 1)>>

\* C9: for every constructed pad (origin >= 0) and every terminal size at the
\* time of refresh, the rectangle passed to pad.refresh is well-formed and
\* inside the terminal, 0 <= top <= bottom <= LINES - 1 and 0 <= left <=
\* right <= COLS - 1, which is what pad.refresh requires of it: the refresh
\* does not raise because of the rectangle.
C9_RectInsideTerminal ==
  \A i \in RefreshCalls(pop.calls) :
    RectOk([LINES |-> pop.LINES, COLS |-> pop.COLS], pop.calls[i].rect)

\* C9 witness: a refresh on a terminal that has shrunk below the bottom and
\* the right edge of the pad's region went through, clamped.
C9_Witness ==
  /\ pop.name = "refresh" /\ pop.raised = "no"
  /\ pad.ypos + pad.height - 1 > pop.LINES - 1
  /\ pad.xpos + pad.width - 1 > pop.COLS - 1
  /\ pop.calls[1].ok
  /\ pop.calls[1].rect[5] = pop.LINES - 1
  /\ pop.calls[1].rect[6] = pop.COLS - 1

\* C10 (as claimed): the curses pad is allocated with exactly the requested
\* rows and columns, whatever the size of the terminal.
C10_BufferAsRequested ==
  (pop.name = "__init__" /\ pop.raised = "no")
    => pad.buf = [rows |-> pop.args.rows, columns |-> pop.args.columns]

C12_TitleTruncated ==
  (Usable(win) /\ wop.name = "DisplayTitle")
    => IF win.rows > 2
       THEN LET n == Max(0, Min(Len(win.Title), win.DisplayColumns - 3))
            IN /\ Len(wop.calls) = 1
               /\ wop.calls[1].op = "addstr"
               /\ wop.calls[1].y = 0 /\ wop.calls[1].x = 2
               /\ wop.calls[1].str = SubSeq(win.Title, 1, n)
       ELSE wop.printed /\ wop.calls = <<>>

\* C13 (as claimed): after a Clear of a window, from any reachable state, no
\* cell of the display area holds text, the title has been drawn again (on
\* a window of 3 rows or more, where DisplayTitle draws), and the cursor is
\* at the first display row and the first display column: 1 and 1 when
\* decorated, 0 and 0 otherwise.  Stated for the windows wide enough for
\* DisplayTitle to cut the Title as C12 has it, DisplayColumns >= 3.
C13_ClearResets ==
  (Usable(win) /\ win.DisplayColumns >= 3
     /\ wop.name = "Clear" /\ wop.raised = "no")
    => /\ TextAfter(win, {}, wop.calls) \cap DisplayCells(win) = {}
       /\ win.rows > 2
            => (Len(wop.calls) = 3 /\ wop.calls[3].op = "addstr"
                  /\ wop.calls[3].y = 0 /\ wop.calls[3].x = 2)
       /\ win.CurrentRow = FirstRow(win)
       /\ win.StartColumn = FirstRow(win)

\* C14: every line PadPrint appends to the pad is columns - 1 characters
\* followed by one line feed, for every text: the text (prefixed, expanded),
\* padded with spaces when shorter and cut when longer; so an append that
\* did not fail takes exactly one row of the pad (the write position moves
\* down one row, or the pad scrolls one row on its last row).
C14_PadLineWidth ==
  [][(pop'.name = "PadPrint" /\ Len(pop'.calls) >= 3)
       => LET s == pop'.calls[3].str
              w == pad.columns
              E == Prepared(pop'.args.PrintLine, pop'.args.TimeStamp)
          IN /\ Len(s) = w
             /\ s[w] = "\n"
             /\ \A i \in 1..(w - 1) :
                  s[i] = IF i <= Len(E) THEN E[i] ELSE " "
             /\ ~pop'.handled
                  => pad' = [pad EXCEPT !.cury = Min(pad.cury + 1, pad.buf.rows - 1)]
    ]_vars

\* C14 witness: PadPrint appended a line cut to columns - 1 characters to a
\* pad of 2 columns or more, and the write position moved down one row
C14_Witness ==
  /\ pop.name = "PadPrint" /\ ~pop.handled
  /\ pad.columns >= 2 /\ pad.cury = 1
  /\ Len(Prepared(pop.args.PrintLine, pop.args.TimeStamp)) > pad.columns - 1
  /\ Len(pop.calls[3].str) = pad.columns

\* The line a write is to show.  TabCol(s, k) is the column, counted from 0
\* at the start of the line, that follows the first k characters of s when
\* every tab runs to the next multiple of 4; TabLine(s) is s laid out at
\* these columns, spaces elsewhere.
RECURSIVE TabCol(_, _)
TabCol(s, k) ==
  IF k = 0 THEN 0
  ELSE LET c == TabCol(s, k - 1)
       IN IF s[k] = TAB THEN ((c \div 4) + 1) * 4 ELSE c + 1

TabLine(s) ==
  [j \in 1..TabCol(s, Len(s)) |->
     IF \E k \in 1..Len(s) : s[k] # TAB /\ TabCol(s, k) = j
     THEN s[CHOOSE k \in 1..Len(s) : s[k] # TAB /\ TabCol(s, k) = j]
     ELSE " "]

\* the character at place i of a line that has spaces after its end
CharAt(line, i) == IF i <= Len(line) THEN line[i] ELSE " "

\* C15: in ScrollPrint and in PadPrint every tab is expanded to spaces up to
\* the next multiple-of-4 column of the line, after the timestamp prefix is
\* added and before the line is split or cut: the k-th chunk ScrollPrint
\* draws is the k-th run of DisplayColumns characters of the expanded
\* prefixed line, no chunk starting after its end, and the line PadPrint
\* writes is its first columns - 1 characters; no chunk holds a tab.
C15_TabsExpanded ==
  /\ (Usable(win) /\ wop.name = "ScrollPrint")
       => LET line == TabLine(IF wop.args.TimeStamp THEN Stamp(wop.args.PrintLine)
                              ELSE wop.args.PrintLine)
              D == win.DisplayColumns
          IN \A i \in ChunkIdx(wop.calls) :
               /\ Len(wop.calls[i].str) = D
               /\ ((i \div 2) - 1) * D < Len(line)
               /\ \A j \in 1..D :
                    wop.calls[i].str[j] = CharAt(line, ((i \div 2) - 1) * D + j)
  /\ (pop.name = "PadPrint" /\ Len(pop.calls) >= 3)
       => LET line == TabLine(IF pop.args.TimeStamp THEN Stamp(pop.args.PrintLine)
                              ELSE pop.args.PrintLine)
          IN \A j \in 1..(pad.columns - 1) :
               pop.calls[3].str[j] = CharAt(line, j)

\* C15 witness: ScrollPrint drew, in two chunks or more, a tab that follows
\* the timestamp prefix
C15_Witness ==
  /\ Usable(win) /\ wop.name = "ScrollPrint"
  /\ wop.args.TimeStamp /\ wop.args.PrintLine = <<TAB>>
  /\ Len(wop.calls) >= 4 /\ wop.calls[2].ok /\ wop.calls[4].ok

\* C16 (as claimed): a window stays usable after a failure.  With a curses
\* library that raises exactly when asked to draw outside the window: after
\* a ScrollPrint that failed part-way because it was asked to draw outside
\* the window, the next ScrollPrint of one chunk asks for no draw outside the
\* window and draws its chunk at a row of the display area.
C16_StaysUsable ==
  [][(/\ Usable(win) /\ wop.name = "ScrollPrint" /\ wop.handled
      /\ LET last == wop.calls[Len(wop.calls)]
         IN ~InWindow(win, last.y, last.x)
      /\ wop'.name = "ScrollPrint"
      /\ IsSingleChunk(win, wop'.args.PrintLine, wop'.args.TimeStamp))
       => /\ \A i \in 1..Len(wop'.calls) :
               InWindow(win, wop'.calls[i].y, wop'.calls[i].x)
          /\ Len(wop'.calls) = 2
          /\ InDisplay(win, wop'.calls[2].y)
    ]_vars

\* C17 (as claimed): after a Clear of a window the next ScrollPrint draws
\* only its own chunks: its redraws of the saved line (the calls of odd
\* index) write no text that was written before the Clear.
C17_NoStaleText ==
  [][(/\ Usable(win) /\ wop.name = "Clear" /\ wop.raised = "no"
      /\ wop'.name = "ScrollPrint" /\ Len(wop'.calls) >= 1)
       => wop'.calls[1].shown = 0
    ]_vars

\* C18 (as claimed): no operation draws a border on an undecorated window
\* (ShowBorder = 'N'): neither the construction, nor ScrollPrint,
\* DisplayTitle or Clear.
C18_NoBorderUndecorated ==
  (win.state = "ok" /\ win.ShowBorder = "N")
    => \A i \in 1..Len(wop.calls) : wop.calls[i].op # "border"

\* C19 (as claimed): after every construction of a window that succeeded,
\* DisplayRows >= 1 and DisplayColumns >= 1, decorated or not.
C19_DisplayAreaNotEmpty ==
  (wop.name = "__init__" /\ wop.raised = "no")
    => (win.DisplayRows >= 1 /\ win.DisplayColumns >= 1)

\* C20 (as claimed): a ScrollPrint of the empty text without timestamp makes
\* no curses call and leaves the instance unchanged: CurrentRow, the saved
\* line (text, colour, row) and the emphasis of the line written before.
C20_EmptyWriteNoOp ==
  [][(/\ Usable(win) /\ wop'.name = "ScrollPrint"
      /\ wop'.args.PrintLine = <<>> /\ ~wop'.args.TimeStamp)
       => (wop'.calls = <<>> /\ ~wop'.handled /\ win' = win /\ emph' = emph)
    ]_vars

====
